---- MODULE Spec2Model ----
(***************************************************************************)
(* Model of functions/main.py: the weekly education-news crawler.          *)
(*                                                                         *)
(* Text is modelled as a sequence of one-symbol strings.  Titles are       *)
(* sequences of (romanised) Hangul syllables and Latin letters; date text  *)
(* is a sequence of characters.                                            *)
(***************************************************************************)
EXTENDS Integers, Sequences, FiniteSets, TLC

VARIABLES
    cl_title,       \* classify_article: the argument `title`
    cl_category,    \* classify_article: the value returned ("pending" before the call)
    rc_input,       \* is_recent_article: what the date text was rendered from
    rc_text,        \* is_recent_article: the argument `date_text`
    rc_now,         \* is_recent_article: datetime.now()
    rc_pc,          \* is_recent_article: "call" before it runs, "returned" after
    rc_result,      \* is_recent_article: the value returned
    cr_office,      \* crawl_education_office: the argument `office_name`
    cr_rows,        \* crawl_education_office: soup.select(config["selector"])
    cr_fetch_ok,    \* crawl_education_office: whether requests.get / raise_for_status passed
    cr_pc,          \* crawl_education_office: "call" before it runs, "returned" after
    cr_articles,    \* crawl_education_office: the list returned
    site,           \* what each office's listing page shows: office -> row elements
    store,          \* the 'news' collection: a set of documents
    clock,          \* the store's commit time: SERVER_TIMESTAMP of the last commit
    next_id,        \* the next fresh document id of collection('news').document()
    passes,         \* how many passes have been started
    pc,             \* per entry point: where its pass stands
    db0,            \* per entry point: the collection as it was when the pass started
    fetched,        \* per entry point: the offices visited so far and how each fetch went
    all_articles,   \* per entry point: weekly_news_crawler's all_articles
    save_pos,       \* per entry point: save_articles_to_firestore's position in articles (0: not called)
    batch,          \* per entry point: the writes staged in db.batch()
    result,         \* per entry point: what weekly_news_crawler returned
    http,           \* per entry point: the HTTP status manual_crawl answered (0: none)
    response        \* get_latest_news: the last response

clVars == <<cl_title, cl_category>>
rcVars == <<rc_input, rc_text, rc_now, rc_pc, rc_result>>
crVars == <<cr_office, cr_rows, cr_fetch_ok, cr_pc, cr_articles>>
passVars == <<pc, db0, fetched, all_articles, save_pos, batch, result, http>>
dbVars == <<store, clock, next_id>>
plVars == <<site, dbVars, passes, passVars, response>>
otherVars == <<clVars, rcVars, crVars>>
vars == <<otherVars, plVars>>

----------------------------------------------------------------------------
(* Generic helpers on sequences                                            *)

Min(a, b) == IF a < b THEN a ELSE b

\* Python's `needle in haystack` for strings.
Contains(hay, needle) ==
    \E i \in 0..(Len(hay) - Len(needle)) :
        \A j \in 1..Len(needle) : hay[i + j] = needle[j]

\* All sequences over S of length at most n.
SeqsUpTo(S, n) == UNION {[1..k -> S] : k \in 0..n}

----------------------------------------------------------------------------
(* classify_article                                                        *)

\* The symbols titles are made of: Hangul syllables (romanised) and the
\* Latin letter A in both cases, which str.lower() folds.
TitleChars == {"dae", "ip", "su", "neung", "si", "hak", "jeop", "A"}

\* str.lower() on one symbol: Hangul has no case.
LowerChar(c) == IF c = "A" THEN "a" ELSE c

\* title.lower()
Lower(title) == [i \in 1..Len(title) |-> LowerChar(title[i])]

\* ['daeip', 'suneung', 'ipsi', 'jeonhyeong']
MajorWords == << <<"dae", "ip">>, <<"su", "neung">>, <<"ip", "si">>, <<"jeon", "hyeong">> >>

\* ['daehakgyo', 'daehak']
UniversityWords == << <<"dae", "hak", "gyo">>, <<"dae", "hak">> >>

\* ['iljeong', 'mojip', 'jeopsu', 'magam']
ScheduleWords == << <<"il", "jeong">>, <<"mo", "jip">>, <<"jeop", "su">>, <<"ma", "gam">> >>

\* any(word in title_lower for word in words)
AnyWordIn(words, title_lower) ==
    \E k \in 1..Len(words) : Contains(title_lower, words[k])

\* A plausible slip: the university branch tested before the admissions one.
classify_article_university_first(title) ==
    LET title_lower == Lower(title) IN
    IF AnyWordIn(UniversityWords, title_lower) THEN "university_news"
    ELSE IF AnyWordIn(MajorWords, title_lower) THEN "major_news"
    ELSE IF AnyWordIn(ScheduleWords, title_lower) THEN "exam_schedule"
    ELSE "education_office_news"

classify_article(title) ==
    LET title_lower == Lower(title) IN
    IF AnyWordIn(MajorWords, title_lower) THEN "major_news"
    ELSE IF AnyWordIn(UniversityWords, title_lower) THEN "university_news"
    ELSE IF AnyWordIn(ScheduleWords, title_lower) THEN "exam_schedule"
    ELSE "education_office_news"

Categories == {"major_news", "university_news", "exam_schedule", "education_office_news"}

----------------------------------------------------------------------------
(* is_recent_article                                                       *)

Digits == {"0", "1", "2", "3", "4", "5", "6", "7", "8", "9"}

DigitVal(c) ==
    CASE c = "0" -> 0 [] c = "1" -> 1 [] c = "2" -> 2 [] c = "3" -> 3 [] c = "4" -> 4
      [] c = "5" -> 5 [] c = "6" -> 6 [] c = "7" -> 7 [] c = "8" -> 8 [] c = "9" -> 9

DigitChar(n) == <<"0", "1", "2", "3", "4", "5", "6", "7", "8", "9">>[n + 1]

\* int(run) for a run of digit characters.
RECURSIVE NumVal(_)
NumVal(run) ==
    IF run = <<>> THEN 0
    ELSE 10 * NumVal(SubSeq(run, 1, Len(run) - 1)) + DigitVal(run[Len(run)])

\* str(n) for n >= 0.
RECURSIVE NumStr(_)
NumStr(n) == IF n < 10 THEN <<DigitChar(n)>> ELSE NumStr(n \div 10) \o <<DigitChar(n % 10)>>

\* re.sub(r'[^\d\-\.]', '', date_text)
IsDateChar(c) == c \in Digits \cup {"-", "."}
CleanDateText(text) == SelectSeq(text, IsDateChar)

\* len(text.split(sep))
SplitLen(text, sep) == 1 + Cardinality({i \in 1..Len(text) : text[i] = sep})

\* f"{datetime.now().year}-{date_text}"
PrependYear(year, text) == NumStr(year) \o <<"-">> \o text

IsLeap(y) == (y % 4 = 0 /\ y % 100 # 0) \/ y % 400 = 0

DaysInMonth(y, m) ==
    IF m = 2 THEN (IF IsLeap(y) THEN 29 ELSE 28)
    ELSE IF m \in {4, 6, 9, 11} THEN 30 ELSE 31

RECURSIVE DaysBeforeMonth(_, _)
DaysBeforeMonth(y, m) == IF m = 1 THEN 0 ELSE DaysBeforeMonth(y, m - 1) + DaysInMonth(y, m - 1)

\* datetime.toordinal(): days since 0001-01-01, proleptic Gregorian.
Ordinal(y, m, d) ==
    365 * (y - 1) + ((y - 1) \div 4) - ((y - 1) \div 100) + ((y - 1) \div 400)
        + DaysBeforeMonth(y, m) + d

\* The formats of the loop, as strptime directives and literals.
DateFormats ==
    << <<"%Y", "-", "%m", "-", "%d">>,
       <<"%Y", ".", "%m", ".", "%d">>,
       <<"%m", "-", "%d">>,
       <<"%m", ".", "%d">> >>

IsDirective(tok) == tok \in {"%Y", "%m", "%d"}

\* The leading run of digits of text.
RECURSIVE DigitRun(_)
DigitRun(text) ==
    IF text # <<>> /\ Head(text) \in Digits THEN <<Head(text)>> \o DigitRun(Tail(text))
    ELSE <<>>

\* _strptime's regular expressions: %Y is \d\d\d\d, %m is 1[0-2]|0[1-9]|[1-9],
\* %d is 3[01]|[12]\d|0[1-9]|[1-9].  Every directive of the four formats is
\* followed by a non-digit literal or the end, so it must take a whole run.
FieldOk(tok, run) ==
    CASE tok = "%Y" -> Len(run) = 4
      [] tok = "%m" -> Len(run) \in {1, 2} /\ NumVal(run) \in 1..12
      [] tok = "%d" -> Len(run) \in {1, 2} /\ NumVal(run) \in 1..31

NoDate == [ok |-> FALSE, y |-> 0, m |-> 0, d |-> 0]

\* The regular-expression match of strptime: the fields found so far in acc.
RECURSIVE MatchFormat(_, _, _)
MatchFormat(text, fmt, acc) ==
    IF fmt = <<>> THEN (IF text = <<>> THEN acc ELSE NoDate)
    ELSE IF IsDirective(Head(fmt)) THEN
        LET run == DigitRun(text) IN
        IF ~FieldOk(Head(fmt), run) THEN NoDate
        ELSE MatchFormat(SubSeq(text, Len(run) + 1, Len(text)), Tail(fmt),
                 CASE Head(fmt) = "%Y" -> [acc EXCEPT !.y = NumVal(run)]
                   [] Head(fmt) = "%m" -> [acc EXCEPT !.m = NumVal(run)]
                   [] Head(fmt) = "%d" -> [acc EXCEPT !.d = NumVal(run)])
    ELSE IF text # <<>> /\ Head(text) = Head(fmt) THEN MatchFormat(Tail(text), Tail(fmt), acc)
    ELSE NoDate

\* datetime.strptime(text, fmt): the year defaults to 1900; datetime() rejects
\* year 0 and a day the month does not have.
strptime(text, fmt) ==
    LET r == MatchFormat(text, fmt, [ok |-> TRUE, y |-> 1900, m |-> 1, d |-> 1]) IN
    IF r.ok /\ r.y >= 1 /\ r.d <= DaysInMonth(r.y, r.m) THEN r ELSE NoDate

\* article_date >= datetime.now() - timedelta(days=30); article_date is a
\* midnight, now.tod is 0 at midnight exactly and 1 later in the day.
NotBefore30Days(y, m, d, now) ==
    LET a == Ordinal(y, m, d)
        t == Ordinal(now.y, now.m, now.d) - 30
    IN a > t \/ (a = t /\ now.tod = 0)

\* The loop over the formats; date_text is reassigned inside the loop, so the
\* text with the year prepended carries over to the next format.
RECURSIVE RecentLoop(_, _, _)
RecentLoop(text, i, now) ==
    IF i > Len(DateFormats) THEN TRUE
    ELSE
        LET text2 == IF SplitLen(text, "-") = 2 \/ SplitLen(text, ".") = 2
                     THEN PrependYear(now.y, text) ELSE text
            date == strptime(text2, DateFormats[i])
        IN IF date.ok THEN NotBefore30Days(date.y, date.m, date.d, now)
           ELSE RecentLoop(text2, i + 1, now)

is_recent_article(date_text, now) ==
    RecentLoop(CleanDateText(date_text), 1, now)

----------------------------------------------------------------------------
(* EDUCATION_OFFICES and crawl_education_office                            *)

\* The registry's source names, in declaration order (dict order):
\* the ministry (MOE) and the Seoul, Gyeonggi and Incheon offices.
EDUCATION_OFFICES == <<"MOE", "SEN", "GOE", "ICE">>

OfficeNames == {EDUCATION_OFFICES[i] : i \in 1..Len(EDUCATION_OFFICES)}

\* article_elements[:5]
RowLimit == 5

\* A row element of a listing: whether the title selector finds an element
\* and its text, whether the date selector finds one and its text, and
\* whether reading the row raises (the per-row except).
TitledRow(title, has_date, date) ==
    [has_title |-> TRUE, title |-> title, has_date |-> has_date, date |-> date,
     raises |-> FALSE]
UntitledRow ==
    [has_title |-> FALSE, title |-> <<>>, has_date |-> FALSE, date |-> <<>>,
     raises |-> FALSE]
RaisingRow ==
    [has_title |-> TRUE, title |-> <<>>, has_date |-> FALSE, date |-> <<>>,
     raises |-> TRUE]

\* The article dict built from a row.  Its link and content are left out:
\* no operation reads them.  created_at is set by the store at commit.
Article(office_name, title, date_text) ==
    [title |-> title, source |-> office_name, date |-> date_text,
     category |-> classify_article(title)]

\* The body of `for element in ...`: the articles list after the rows.
RECURSIVE CrawlRows(_, _, _, _)
CrawlRows(office_name, rows, now, articles) ==
    IF rows = <<>> THEN articles
    ELSE
        LET element == Head(rows)
            date_text == IF element.has_date THEN element.date ELSE <<>>
        IN IF element.raises \/ ~element.has_title
           THEN CrawlRows(office_name, Tail(rows), now, articles)
           ELSE IF is_recent_article(date_text, now)
           THEN CrawlRows(office_name, Tail(rows), now,
                    Append(articles, Article(office_name, element.title, date_text)))
           ELSE CrawlRows(office_name, Tail(rows), now, articles)

\* A plausible slip: the rows filtered first and the list cut to five after.
crawl_truncate_after_filter(office_name, fetch_ok, rows, now) ==
    IF ~fetch_ok THEN <<>>
    ELSE LET all == CrawlRows(office_name, rows, now, <<>>)
         IN SubSeq(all, 1, Min(RowLimit, Len(all)))

\* A plausible slip: a fetch that failed still yields the rows the page holds
\* (the response parsed without raise_for_status).
crawl_ignores_fetch_failure(office_name, fetch_ok, rows, now) ==
    CrawlRows(office_name, SubSeq(rows, 1, Min(RowLimit, Len(rows))), now, <<>>)

\* crawl_education_office: requests.get / raise_for_status raising is caught
\* by the outer except and the empty list is returned.
crawl_education_office(office_name, fetch_ok, rows, now) ==
    IF ~fetch_ok THEN <<>>
    ELSE CrawlRows(office_name, SubSeq(rows, 1, Min(RowLimit, Len(rows))), now, <<>>)

----------------------------------------------------------------------------
(* The store, save_articles_to_firestore and get_latest_news               *)

\* db.collection('news').where('title', '==', ...).where('source', '==', ...).limit(1).get()
Existing(db, article) ==
    {d \in db : d.title = article.title /\ d.source = article.source}

\* A plausible slip: the duplicate check dropped, every candidate staged.
StageIfNew_always(db, staged, article, at) ==
    Append(staged, [article |-> article, checked_at |-> at])

\* `if not existing: batch.set(doc_ref, article)`: the batch after one
\* candidate.  checked_at records the store's commit time at the query.
StageIfNew(db, staged, article, at) ==
    IF Existing(db, article) = {} THEN Append(staged, [article |-> article, checked_at |-> at])
    ELSE staged

\* The documents a commit of the batch writes: fresh ids, and for all of
\* them the commit's server timestamp.
BatchDocs(staged, first_id, commit_time) ==
    {[id |-> first_id + j - 1,
      title |-> staged[j].article.title,
      source |-> staged[j].article.source,
      date |-> staged[j].article.date,
      category |-> staged[j].article.category,
      created_at |-> commit_time] : j \in 1..Len(staged)}

\* A plausible slip: set() on the collection at once instead of on the batch,
\* so a commit that raises has already written its first document.
StoreAfterFailedCommit_partial(db, staged, first_id, commit_time) ==
    db \cup BatchDocs(SubSeq(staged, 1, Min(1, Len(staged))), first_id, commit_time)

\* batch.commit() raising: the batch is atomic, nothing of it is written.
StoreAfterFailedCommit(db, staged, first_id, commit_time) == db

\* batch.commit() succeeding.
StoreAfterCommit(db, staged, first_id, commit_time) ==
    db \cup BatchDocs(staged, first_id, commit_time)

\* .limit(5)
QueryLimit == 5

\* news_data.keys(), in declaration order.
QueryCategories ==
    <<"major_news", "education_office_news", "university_news", "exam_schedule">>

\* .where('category', '==', category)
OfCategory(db, category) == {d \in db : d.category = category}

\* .order_by('created_at', DESCENDING).limit(n): the lists the query may
\* return, built newest first; documents of one commit share created_at and
\* come in the order of their (random) names, so any of them may come next.
RECURSIVE NewestFirst(_, _)
NewestFirst(docs, n) ==
    IF n = 0 \/ docs = {} THEN {<<>>}
    ELSE LET newest == {d \in docs : \A e \in docs : e.created_at <= d.created_at}
         IN UNION {{<<d>> \o rest : rest \in NewestFirst(docs \ {d}, n - 1)} : d \in newest}

\* A plausible slip: the query ordered ascending.
RECURSIVE OldestFirst(_, _)
OldestFirst(docs, n) ==
    IF n = 0 \/ docs = {} THEN {<<>>}
    ELSE LET oldest == {d \in docs : \A e \in docs : e.created_at >= d.created_at}
         IN UNION {{<<d>> \o rest : rest \in OldestFirst(docs \ {d}, n - 1)} : d \in oldest}

CategoryQuery_ascending(db, category) == OldestFirst(OfCategory(db, category), QueryLimit)

\* The lists one category's query may stream.
CategoryQuery(db, category) == NewestFirst(OfCategory(db, category), QueryLimit)

----------------------------------------------------------------------------
(* weekly_news_crawler, manual_crawl and get_latest_news as steps           *)

\* The passes a behaviour may start.
MaxPasses == 2

\* The two entry points that run a pass: the scheduled cloud event and the
\* manual_crawl HTTP function.
EntryPoints == {"scheduled", "manual"}

\* datetime.now() during the passes modelled.
Today == [y |-> 2024, m |-> 2, d |-> 1, tod |-> 1]

NoResult == [status |-> "none"]
SuccessResult(n) == [status |-> "success", articles_count |-> n]
ErrorResult(msg) == [status |-> "error", error |-> msg]
StoreErrors == {"query failed", "commit failed"}
NoResponse == [status |-> 0]

\* manual_crawl answers 500 only from its own except branch, which runs when
\* weekly_news_crawler raises.
ManualStatus(crawler_raised) == IF crawler_raised THEN 500 ELSE 200

\* weekly_news_crawler returning res: its own except turns every exception
\* of the pass into an error record, so manual_crawl never sees one raised.
Returned(w, res) ==
    /\ pc' = [pc EXCEPT ![w] = "done"]
    /\ result' = [result EXCEPT ![w] = res]
    /\ http' = [http EXCEPT ![w] = IF w = "manual" THEN ManualStatus(FALSE) ELSE 0]

\* An entry point is triggered (manual_crawl with a method other than
\* OPTIONS) and its pass begins.  alone: no other pass may be running.
StartPass(w, alone) ==
    /\ pc[w] = "idle"
    /\ alone => (\A v \in EntryPoints : pc[v] = "idle") /\ response = NoResponse
    /\ passes < MaxPasses
    /\ passes' = passes + 1
    /\ pc' = [pc EXCEPT ![w] = "crawl"]
    /\ db0' = [db0 EXCEPT ![w] = store]
    /\ UNCHANGED <<otherVars, site, dbVars, fetched, all_articles, save_pos, batch, result, http, response>>

\* manual_crawl with method OPTIONS: 204 and no pass.
ManualOptions ==
    /\ \A v \in EntryPoints : pc[v] = "idle"
    /\ pc' = [pc EXCEPT !["manual"] = "done"]
    /\ http' = [http EXCEPT !["manual"] = 204]
    /\ UNCHANGED <<otherVars, site, dbVars, passes, db0, fetched, all_articles, save_pos, batch, result, response>>

\* One turn of `for office_name, config in EDUCATION_OFFICES.items()`; after
\* the last office, `if all_articles:` enters the writer or the pass returns.
CrawlOffice(w, outcomes) ==
    /\ pc[w] = "crawl"
    /\ \E fetch_ok \in outcomes :
        LET i == Len(fetched[w]) + 1
            office_name == EDUCATION_OFFICES[i]
            articles == crawl_education_office(office_name, fetch_ok, site[office_name], Today)
            collected == all_articles[w] \o articles
        IN /\ fetched' = [fetched EXCEPT ![w] = Append(@, [office |-> office_name, ok |-> fetch_ok])]
           /\ all_articles' = [all_articles EXCEPT ![w] = collected]
           /\ IF i < Len(EDUCATION_OFFICES)
              THEN UNCHANGED <<pc, save_pos, result, http>>
              ELSE IF collected # <<>>
              THEN /\ pc' = [pc EXCEPT ![w] = "save"]
                   /\ save_pos' = [save_pos EXCEPT ![w] = 1]
                   /\ UNCHANGED <<result, http>>
              ELSE /\ Returned(w, SuccessResult(0))
                   /\ UNCHANGED save_pos
    /\ UNCHANGED <<otherVars, site, dbVars, passes, db0, batch, response>>

\* One turn of `for article in articles`: the existence query and the staging.
CheckExisting(w) ==
    /\ pc[w] = "save"
    /\ LET j == save_pos[w] IN
        /\ batch' = [batch EXCEPT ![w] = StageIfNew(store, @, all_articles[w][j], clock)]
        /\ save_pos' = [save_pos EXCEPT ![w] = j + 1]
        /\ pc' = [pc EXCEPT ![w] = IF j = Len(all_articles[w]) THEN "commit" ELSE "save"]
    /\ UNCHANGED <<otherVars, site, dbVars, passes, db0, fetched, all_articles, result, http, response>>

\* The existence query raises: the exception leaves save_articles_to_firestore
\* and is caught by weekly_news_crawler's except.
QueryRaises(w) ==
    /\ pc[w] = "save"
    /\ Returned(w, ErrorResult("query failed"))
    /\ UNCHANGED <<otherVars, site, dbVars, passes, db0, fetched, all_articles, save_pos, batch, response>>

\* batch.commit()
Commit(w) ==
    /\ pc[w] = "commit"
    /\ store' = StoreAfterCommit(store, batch[w], next_id, clock + 1)
    /\ clock' = clock + 1
    /\ next_id' = next_id + Len(batch[w])
    /\ Returned(w, SuccessResult(Len(all_articles[w])))
    /\ UNCHANGED <<otherVars, site, passes, db0, fetched, all_articles, save_pos, batch, response>>

\* batch.commit() raises.
CommitRaises(w) ==
    /\ pc[w] = "commit"
    /\ store' = StoreAfterFailedCommit(store, batch[w], next_id, clock + 1)
    /\ Returned(w, ErrorResult("commit failed"))
    /\ UNCHANGED <<otherVars, site, clock, next_id, passes, db0, fetched, all_articles, save_pos, batch, response>>

\* The entry point has answered; the locals of the call are gone.
Finish(w) ==
    /\ pc[w] = "done"
    /\ pc' = [pc EXCEPT ![w] = "idle"]
    /\ db0' = [db0 EXCEPT ![w] = {}]
    /\ fetched' = [fetched EXCEPT ![w] = <<>>]
    /\ all_articles' = [all_articles EXCEPT ![w] = <<>>]
    /\ save_pos' = [save_pos EXCEPT ![w] = 0]
    /\ batch' = [batch EXCEPT ![w] = <<>>]
    /\ result' = [result EXCEPT ![w] = NoResult]
    /\ http' = [http EXCEPT ![w] = 0]
    /\ UNCHANGED <<otherVars, site, dbVars, passes, response>>

\* The news_data mappings a GET may build from the collection.
get_latest_news(db) ==
    {[major_news |-> a, education_office_news |-> b, university_news |-> c, exam_schedule |-> d] :
        a \in CategoryQuery(db, QueryCategories[1]),
        b \in CategoryQuery(db, QueryCategories[2]),
        c \in CategoryQuery(db, QueryCategories[3]),
        d \in CategoryQuery(db, QueryCategories[4])}

\* No request is being served: the read API is taken between passes, where
\* it sees every collection a request during a pass could see.
Quiet == (\A v \in EntryPoints : pc[v] = "idle") /\ response = NoResponse

\* get_latest_news answering a GET.
GetLatestNews ==
    /\ Quiet
    /\ \E news_data \in get_latest_news(store) :
          response' = [status |-> 200, body |-> news_data]
    /\ UNCHANGED <<otherVars, site, dbVars, passes, passVars>>

\* get_latest_news answering OPTIONS.
GetLatestNewsOptions ==
    /\ Quiet
    /\ response' = [status |-> 204]
    /\ UNCHANGED <<otherVars, site, dbVars, passes, passVars>>

\* A query of get_latest_news raises: the 500 answer.
GetLatestNewsRaises ==
    /\ Quiet
    /\ response' = [status |-> 500]
    /\ UNCHANGED <<otherVars, site, dbVars, passes, passVars>>

\* The response has gone out.
ResponseSent ==
    /\ response # NoResponse
    /\ response' = NoResponse
    /\ UNCHANGED <<otherVars, site, dbVars, passes, passVars>>

----------------------------------------------------------------------------
(* Titles, dates and listing pages the specifications draw from            *)

TitleMajor == <<"su", "neung">>
TitleMajor2 == <<"dae", "hak", "ip", "si">>
TitleUniversity == <<"dae", "hak">>
TitleSchedule == <<"jeop", "su">>
TitleOffice == <<"A", "si">>

RecentDate == <<"2", "0", "2", "4", "-", "0", "1", "-", "2", "0">>
OldDate == <<"2", "0", "2", "3", ".", "0", "1", ".", "0", "1">>

EmptySite == [o \in OfficeNames |-> <<>>]

\* The first office lists one title twice; another office lists that title too.
SiteRepeats ==
    [EmptySite EXCEPT !["MOE"] = <<TitledRow(TitleMajor, TRUE, RecentDate),
                                   TitledRow(TitleMajor, TRUE, RecentDate)>>,
                      !["GOE"] = <<TitledRow(TitleMajor, FALSE, <<>>)>>]

\* Rows that are dropped among rows that are kept, in two offices.
SiteMixed ==
    [EmptySite EXCEPT !["SEN"] = <<UntitledRow, TitledRow(TitleUniversity, TRUE, RecentDate),
                                   TitledRow(TitleSchedule, TRUE, OldDate)>>,
                      !["ICE"] = <<RaisingRow, TitledRow(TitleOffice, FALSE, <<>>)>>]

\* No office lists anything that is kept.
SiteQuiet ==
    [EmptySite EXCEPT !["MOE"] = <<TitledRow(TitleSchedule, TRUE, OldDate)>>]

Sites == {SiteRepeats, SiteMixed, SiteQuiet}

\* Every category more than once, and more than five admissions titles.
SiteBusy ==
    [o \in OfficeNames |->
        CASE o = "MOE" -> <<TitledRow(TitleMajor, TRUE, RecentDate),
                            TitledRow(TitleMajor2, TRUE, RecentDate),
                            TitledRow(TitleOffice, FALSE, <<>>)>>
          [] o = "SEN" -> <<TitledRow(TitleMajor, TRUE, RecentDate),
                            TitledRow(TitleUniversity, TRUE, RecentDate)>>
          [] o = "GOE" -> <<TitledRow(TitleMajor, TRUE, RecentDate),
                            TitledRow(TitleSchedule, TRUE, RecentDate),
                            TitledRow(TitleOffice, FALSE, <<>>)>>
          [] o = "ICE" -> <<TitledRow(TitleMajor2, TRUE, RecentDate),
                            TitledRow(TitleMajor, TRUE, RecentDate)>>]

----------------------------------------------------------------------------
(* Initial values of the parts a specification does not exercise           *)

ClassifierIdle == cl_title = <<>> /\ cl_category = "pending"

RecencyIdle ==
    /\ rc_input = [form |-> "none", y |-> 0, m |-> 0, d |-> 0]
    /\ rc_text = <<>>
    /\ rc_now = Today
    /\ rc_pc = "call"
    /\ rc_result = FALSE

CrawlIdle ==
    /\ cr_office = EDUCATION_OFFICES[1]
    /\ cr_rows = <<>>
    /\ cr_fetch_ok = TRUE
    /\ cr_pc = "call"
    /\ cr_articles = <<>>

\* The state after the module is loaded: an empty collection, nothing running.
PipelineInit ==
    /\ store = {}
    /\ clock = 0
    /\ next_id = 1
    /\ passes = 0
    /\ pc = [w \in EntryPoints |-> "idle"]
    /\ db0 = [w \in EntryPoints |-> {}]
    /\ fetched = [w \in EntryPoints |-> <<>>]
    /\ all_articles = [w \in EntryPoints |-> <<>>]
    /\ save_pos = [w \in EntryPoints |-> 0]
    /\ batch = [w \in EntryPoints |-> <<>>]
    /\ result = [w \in EntryPoints |-> NoResult]
    /\ http = [w \in EntryPoints |-> 0]
    /\ response = NoResponse

PipelineIdle == site = EmptySite /\ PipelineInit

----------------------------------------------------------------------------
(* Spec: passes one after another, from either entry point, with fetches    *)
(* and store operations that may fail                                       *)

Init ==
    /\ ClassifierIdle /\ RecencyIdle /\ CrawlIdle
    /\ site \in Sites
    /\ PipelineInit

Next ==
    \/ \E w \in EntryPoints : StartPass(w, TRUE)
    \/ ManualOptions
    \/ \E w \in EntryPoints : CrawlOffice(w, BOOLEAN)
    \/ \E w \in EntryPoints : CheckExisting(w)
    \/ \E w \in EntryPoints : QueryRaises(w)
    \/ \E w \in EntryPoints : Commit(w)
    \/ \E w \in EntryPoints : CommitRaises(w)
    \/ \E w \in EntryPoints : Finish(w)

Spec == Init /\ [][Next]_vars

----------------------------------------------------------------------------
(* SpecQuery: passes one after another over a busy site, and the read API   *)

InitQuery ==
    /\ ClassifierIdle /\ RecencyIdle /\ CrawlIdle
    /\ site = SiteBusy
    /\ PipelineInit

NextQuery ==
    \/ StartPass("scheduled", TRUE)
    \/ CrawlOffice("scheduled", BOOLEAN)
    \/ CheckExisting("scheduled")
    \/ Commit("scheduled")
    \/ Finish("scheduled")
    \/ GetLatestNews
    \/ GetLatestNewsOptions
    \/ GetLatestNewsRaises
    \/ ResponseSent

SpecQuery == InitQuery /\ [][NextQuery]_vars

----------------------------------------------------------------------------
(* SpecConc: the scheduled pass and a manual pass may overlap               *)

InitConc ==
    /\ ClassifierIdle /\ RecencyIdle /\ CrawlIdle
    /\ site \in Sites
    /\ PipelineInit

NextConc ==
    \/ \E w \in EntryPoints : StartPass(w, FALSE)
    \/ \E w \in EntryPoints : CrawlOffice(w, BOOLEAN)
    \/ \E w \in EntryPoints : CheckExisting(w)
    \/ \E w \in EntryPoints : Commit(w)
    \/ \E w \in EntryPoints : Finish(w)

SpecConc == InitConc /\ [][NextConc]_vars

----------------------------------------------------------------------------
(* SpecCrawl: crawl_education_office alone, on every short listing          *)

MaxRows == 6

CrawlRowKinds ==
    {TitledRow(TitleMajor, TRUE, RecentDate), TitledRow(TitleUniversity, FALSE, <<>>),
     TitledRow(TitleSchedule, TRUE, OldDate), UntitledRow, RaisingRow}

InitCrawl ==
    /\ ClassifierIdle /\ RecencyIdle /\ PipelineIdle
    /\ cr_office = EDUCATION_OFFICES[1]
    /\ cr_rows \in SeqsUpTo(CrawlRowKinds, MaxRows)
    /\ cr_fetch_ok = TRUE
    /\ cr_pc = "call"
    /\ cr_articles = <<>>

Crawl ==
    /\ cr_pc = "call"
    /\ cr_pc' = "returned"
    /\ \E fetch_ok \in BOOLEAN :
        /\ cr_fetch_ok' = fetch_ok
        /\ cr_articles' = crawl_education_office(cr_office, fetch_ok, cr_rows, Today)
    /\ UNCHANGED <<cr_office, cr_rows, clVars, rcVars, plVars>>

SpecCrawl == InitCrawl /\ [][Crawl]_vars

----------------------------------------------------------------------------
(* SpecClassify: classify_article alone, on every short title              *)

MaxTitleLen == 4

Titles == SeqsUpTo(TitleChars, MaxTitleLen)

InitClassify ==
    /\ cl_title \in Titles
    /\ cl_category = "pending"
    /\ RecencyIdle /\ CrawlIdle /\ PipelineIdle

Classify ==
    /\ cl_category = "pending"
    /\ cl_category' = classify_article(cl_title)
    /\ UNCHANGED <<cl_title, rcVars, crVars, plVars>>

SpecClassify == InitClassify /\ [][Classify]_vars

----------------------------------------------------------------------------
(* SpecRecent: is_recent_article alone, on date text rendered from a date   *)
(* in one of the forms the sites use, or on other text                      *)

Years == {2023, 2024}
Months == {1, 11, 12}
Days == {1, 2, 20, 21}
Nows == {[y |-> 2024, m |-> mm, d |-> dd, tod |-> t] :
             mm \in {2, 12}, dd \in {1, 20}, t \in {0, 1}}
DateForms == {"Y-M-D", "Y.M.D", "M-D", "M.D"}

\* Two-digit, zero-padded, or as written without padding.
Field(n, pad) == IF pad /\ n < 10 THEN <<"0">> \o NumStr(n) ELSE NumStr(n)

\* The text a site prints for a date in a form.
Render(form, y, m, d, pad) ==
    CASE form = "Y-M-D" -> NumStr(y) \o <<"-">> \o Field(m, pad) \o <<"-">> \o Field(d, pad)
      [] form = "Y.M.D" -> NumStr(y) \o <<".">> \o Field(m, pad) \o <<".">> \o Field(d, pad)
      [] form = "M-D" -> Field(m, pad) \o <<"-">> \o Field(d, pad)
      [] form = "M.D" -> Field(m, pad) \o <<".">> \o Field(d, pad)

\* Text in none of the four forms: empty, a notice word, digits without
\* separators, a two-digit year, a date followed by a time of day, a year
\* and a month.
OtherTexts ==
    { <<>>, <<"x", "x">>,
      <<"2", "0", "2", "3", "0", "1", "0", "1">>,
      <<"2", "3", "-", "0", "1", "-", "0", "1">>,
      <<"2", "0", "2", "3", "-", "0", "1", "-", "0", "1", "x", "1", "0", "x", "3", "0">>,
      <<"2", "0", "2", "3", "-", "0", "1">> }

InitRecent ==
    /\ ClassifierIdle /\ CrawlIdle /\ PipelineIdle
    /\ rc_now \in Nows
    /\ rc_pc = "call"
    /\ rc_result = FALSE
    /\ \/ \E form \in DateForms, y \in Years, m \in Months, d \in Days,
             pad \in BOOLEAN, junk \in {<<>>, <<"x">>} :
             /\ rc_input = [form |-> form,
                            y |-> IF form \in {"M-D", "M.D"} THEN rc_now.y ELSE y,
                            m |-> m, d |-> d]
             /\ rc_text = junk \o Render(form, y, m, d, pad) \o junk
       \/ /\ rc_input = [form |-> "none", y |-> 0, m |-> 0, d |-> 0]
          /\ rc_text \in OtherTexts

Filter ==
    /\ rc_pc = "call"
    /\ rc_pc' = "returned"
    /\ rc_result' = is_recent_article(rc_text, rc_now)
    /\ UNCHANGED <<rc_input, rc_text, rc_now, clVars, crVars, plVars>>

SpecRecent == InitRecent /\ [][Filter]_vars

----------------------------------------------------------------------------
(* Claims                                                                  *)

\* The entry points whose pass has returned (manual_crawl's OPTIONS answer
\* is not a pass).
PassDone(w) == pc[w] = "done" /\ result[w] # NoResult

SameKey(a, b) == a.title = b.title /\ a.source = b.source

\* C1: after non-overlapping passes the store never holds two records with
\* the same (title, source), also when one pass submits the pair twice.
C1_NoDuplicateKeys ==
    \A d \in store : \A e \in store : SameKey(d, e) => d = e

\* What the offices visited contribute when each page is crawled as fetched.
RECURSIVE CandidatesOfVisited(_)
CandidatesOfVisited(visits) ==
    IF visits = <<>> THEN <<>>
    ELSE (IF Head(visits).ok
          THEN crawl_education_office(Head(visits).office, TRUE, site[Head(visits).office], Today)
          ELSE <<>>) \o CandidatesOfVisited(Tail(visits))

SomeFetchFailed(w) == \E i \in 1..Len(fetched[w]) : ~fetched[w][i].ok

\* What C2 says of a pass that returned after a failed fetch, but for the
\* status: every office visited in registry order, nothing collected from a
\* failed office, the other offices' candidates collected and handed to the
\* store writer.
FailureIsolated(w) ==
    /\ Len(fetched[w]) = Len(EDUCATION_OFFICES)
    /\ \A i \in 1..Len(fetched[w]) : fetched[w][i].office = EDUCATION_OFFICES[i]
    /\ \A i \in 1..Len(fetched[w]) :
          ~fetched[w][i].ok =>
              \A j \in 1..Len(all_articles[w]) : all_articles[w][j].source # EDUCATION_OFFICES[i]
    /\ all_articles[w] = CandidatesOfVisited(fetched[w])
    /\ all_articles[w] # <<>> => save_pos[w] >= 1

\* C2 as stated: a pass in which a fetch failed visits every office in
\* registry order, collects nothing from the failed office, hands the other
\* offices' candidates to the store writer and returns status "success".
C2_FetchFailureAlwaysSuccess ==
    \A w \in EntryPoints :
        PassDone(w) /\ SomeFetchFailed(w) =>
            FailureIsolated(w) /\ result[w].status = "success"

\* C2 as amended: a pass in which a fetch failed visits every office in
\* registry order, collects nothing from the failed office, hands the other
\* offices' candidates to the store writer, and returns status "success"
\* unless a store operation raised: the only errors it returns are the
\* store's.
C2_FetchFailureIsolated ==
    \A w \in EntryPoints :
        PassDone(w) /\ SomeFetchFailed(w) =>
            /\ FailureIsolated(w)
            /\ result[w].status \in {"success", "error"}
            /\ result[w].status = "error" => result[w].error \in StoreErrors

\* C2 witness: a pass returned success after a failed fetch, with candidates
\* of another office written.
C2_Witness ==
    \E w \in EntryPoints :
        /\ PassDone(w) /\ SomeFetchFailed(w)
        /\ result[w].status = "success"
        /\ all_articles[w] # <<>>
        /\ store # db0[w]

\* C3: a pass in which a store operation raised returns status "error" with
\* the message, and leaves the store as it was when the pass started: no
\* candidate of the pass is persisted.
C3_StoreErrorLeavesStore ==
    \A w \in EntryPoints :
        PassDone(w) =>
            /\ (save_pos[w] >= 1 /\ result[w].status # "success") =>
                   result[w].status = "error" /\ result[w].error \in StoreErrors
            /\ result[w].status = "error" => store = db0[w]

\* C3 witness: the commit of a batch holding staged writes raised.
C3_Witness ==
    \E w \in EntryPoints :
        /\ PassDone(w)
        /\ result[w] = ErrorResult("commit failed")
        /\ batch[w] # <<>>
        /\ store = db0[w]

\* The categories of the read API.
FourCategories == {"major_news", "education_office_news", "university_news", "exam_schedule"}

RowKept(row) ==
    /\ row.has_title
    /\ ~row.raises
    /\ is_recent_article(IF row.has_date THEN row.date ELSE <<>>, Today)

\* C5: only the first five row elements are considered: the articles
\* returned are, in order, those of the rows kept among the first five, so
\* at most five, and no row from the sixth on yields one, however many of
\* the first five are dropped.
C5_OnlyFirstFiveRows ==
    (cr_pc = "returned" /\ cr_fetch_ok) =>
        LET kept == {i \in 1..Min(5, Len(cr_rows)) : RowKept(cr_rows[i])}
        IN /\ Len(cr_articles) <= 5
           /\ Len(cr_articles) = Cardinality(kept)
           /\ \A n \in 1..Len(cr_articles) :
                  \E i \in kept :
                      /\ Cardinality({j \in kept : j <= i}) = n
                      /\ cr_articles[n].title = cr_rows[i].title
                      /\ cr_articles[n].source = cr_office

\* C5 witness: a listing whose sixth row would be kept, crawled with rows
\* among the first five dropped for each of the three reasons.
C5_Witness ==
    /\ cr_pc = "returned" /\ cr_fetch_ok
    /\ Len(cr_rows) >= 6
    /\ RowKept(cr_rows[6])
    /\ \E i \in 1..5 : ~cr_rows[i].has_title
    /\ \E i \in 1..5 : cr_rows[i].raises
    /\ \E i \in 1..5 : cr_rows[i].has_title /\ ~cr_rows[i].raises /\ ~RowKept(cr_rows[i])
    /\ Len(cr_articles) = 2

\* C6: classify_article is total: every title maps to one of the four
\* categories; a title with an admissions word is major_news whatever else
\* it contains, a title with a university word and no admissions word is
\* university_news whatever schedule words it contains, a title with only
\* schedule words is exam_schedule, and a title with no word of the three
\* lists is education_office_news.
C6_ClassifyTotalPriority ==
    cl_category # "pending" =>
        /\ cl_category \in Categories
        /\ cl_category =
             (CASE AnyWordIn(MajorWords, cl_title) -> "major_news"
                [] ~AnyWordIn(MajorWords, cl_title)
                     /\ AnyWordIn(UniversityWords, cl_title) -> "university_news"
                [] ~AnyWordIn(MajorWords, cl_title)
                     /\ ~AnyWordIn(UniversityWords, cl_title)
                     /\ AnyWordIn(ScheduleWords, cl_title) -> "exam_schedule"
                [] OTHER -> "education_office_news")

\* C6 witness: a classified title holding an admissions word and a
\* university word at once.
C6_Witness ==
    /\ cl_category = "major_news"
    /\ AnyWordIn(MajorWords, cl_title)
    /\ AnyWordIn(UniversityWords, cl_title)

\* C7: for date text in one of the four forms the filter answers whether
\* the denoted date (in the current year for the month-day forms) is on or
\* after now - 30 days, and for any other text it answers true.
C7_RecentExactlyWithinWindow ==
    rc_pc = "returned" =>
        rc_result = (IF rc_input.form = "none" THEN TRUE
                     ELSE NotBefore30Days(rc_input.y, rc_input.m, rc_input.d, rc_now))

\* C8: manual_crawl answers a request other than OPTIONS with 200 and the
\* pass's result when the pass succeeds, and with 500 when the pass fails.
C8_ManualStatusFollowsPass ==
    PassDone("manual") =>
        /\ result["manual"].status = "success" => http["manual"] = 200
        /\ result["manual"].status = "error" => http["manual"] = 500

\* C9: between passes that may overlap, a staged write duplicates a stored
\* record only when that record was committed after the write's existence
\* check, that is inside the check-then-commit window of the store writer;
\* the window does let two passes store the same (title, source) twice.
C9_DuplicateOnlyThroughWindow ==
    \A w \in EntryPoints :
        \A j \in 1..Len(batch[w]) :
            \A d \in Existing(store, batch[w][j].article) :
                d.created_at > batch[w][j].checked_at

\* C9 witness: two passes overlapped, both found the pair absent, and the
\* store holds it twice, from two commits.
C9_Witness ==
    \E d \in store : \E e \in store :
        SameKey(d, e) /\ d.created_at < e.created_at

\* C10 as stated: a second pass over unchanged site contents (a behaviour's
\* site never changes) adds no record.
C10_SecondPassAddsNothing ==
    \A w \in EntryPoints :
        (PassDone(w) /\ passes >= 2) => store = db0[w]

\* C10 as amended: a candidate whose (title, source) is stored when the pass
\* starts is never staged; a pass that returns success leaves every one of
\* its candidates' pairs stored, and a pass all of whose candidates' pairs
\* were stored when it started (as in a second pass that collects what a
\* successful pass before it collected) leaves the store as it was; no pass
\* modifies or removes a stored record.
C10_SequentialPassIdempotent ==
    \A w \in EntryPoints :
        /\ \A j \in 1..Len(batch[w]) : Existing(db0[w], batch[w][j].article) = {}
        /\ pc[w] # "idle" => db0[w] \subseteq store
        /\ PassDone(w) =>
            /\ result[w].status = "success" =>
                   \A j \in 1..Len(all_articles[w]) : Existing(store, all_articles[w][j]) # {}
            /\ (\A j \in 1..Len(all_articles[w]) : Existing(db0[w], all_articles[w][j]) # {})
                   => store = db0[w]

\* C10 witness: a second pass collected candidates that were all stored
\* already, committed, and left the store as it was.
C10_Witness ==
    \E w \in EntryPoints :
        /\ PassDone(w) /\ passes = 2
        /\ result[w].status = "success"
        /\ all_articles[w] # <<>>
        /\ save_pos[w] > Len(all_articles[w])
        /\ batch[w] = <<>>
        /\ db0[w] # {}
        /\ store = db0[w]

====
